---------------------------- MODULE Spec2Model ----------------------------
(***************************************************************************)
(* Model of the Drupal-to-Pinecone HTTP service (src/python/main.py).      *)
(*                                                                         *)
(* One request is handled at a time (the handlers never yield between      *)
(* their statements: the provider client is called synchronously).  The    *)
(* external provider is the environment: each external call (pc.Index,     *)
(* pc.inference.embed, index.upsert, index.query) either raises or         *)
(* returns a value the service does not control.  Every external call is   *)
(* appended to the log `calls` with its arguments and its outcome.         *)
(*                                                                         *)
(* Text (title, body value, query) is a sequence of one-character strings, *)
(* so that str.strip() is modelled by what it does.  Opaque strings (ids,  *)
(* timestamps, messages) are TLA+ strings.                                 *)
(***************************************************************************)
EXTENDS Integers, Sequences, FiniteSets, TLC

VARIABLES
    pc,                 \* the module-level client: TRUE iff PINECONE_API_KEY was set
    request,            \* the request being handled
    loc,                \* position of the handler
    prepared_nodes,     \* store handlers: the prepared documents (articles_data)
    vectors_to_upsert,  \* store_in_pinecone: the assembled upsert batch
    query_vector,       \* search_articles: the query embedding
    calls,              \* external calls made while handling the request
    response            \* the HTTP response of the request

vars == <<pc, request, loc, prepared_nodes, vectors_to_upsert, query_vector,
          calls, response>>

----------------------------------------------------------------------------
(* Bounds *)

MaxLen == 2         \* longest title / body value / query drawn
MaxBatch == 2       \* longest batch posted to /store-nodes
MaxMatches == 2     \* most matches the index returns

----------------------------------------------------------------------------
(* Values *)

\* Optional[T]: None or a value
None == [present |-> FALSE]
Some(v) == [present |-> TRUE, value |-> v]

\* characters str.strip() removes (a subset of Python's whitespace)
Whitespace == {" ", "\t"}
Alphabet == Whitespace \cup {"a"}

RECURSIVE StringsUpTo(_)
StringsUpTo(n) ==
    IF n = 0 THEN {<<>>}
    ELSE LET shorter == StringsUpTo(n - 1)
         IN  shorter \cup {Append(s, c) : s \in shorter, c \in Alphabet}

Strings == StringsUpTo(MaxLen)

Hello == <<"H", "e", "l", "l", "o">>
World == <<"W", "o", "r", "l", "d">>

Ids == {"42", "7"}
Timestamps == {"2024-01-01T00:00:00"}

\* DrupalNode (with its DrupalNodeAttributes / DrupalNodeBody)
DrupalNode(id, title, body, created, changed, status) ==
    [id |-> id,
     type |-> "node--article",
     attributes |-> [title |-> title, body |-> body, created |-> created,
                     changed |-> changed, status |-> status]]

DrupalNodeBody(value) == Some([value |-> value, format |-> None])

ExampleNode == DrupalNode("42", Hello, DrupalNodeBody(World), None, None, None)

\* the article records drawn for the translator alone
AllNodes ==
    {ExampleNode} \cup
    {DrupalNode(id, title, body, created, changed, status) :
        id \in Ids,
        title \in Strings,
        body \in {None} \cup {DrupalNodeBody(v) : v \in Strings},
        created \in {None} \cup {Some(t) : t \in Timestamps},
        changed \in {None} \cup {Some(t) : t \in Timestamps},
        status \in {None, Some(TRUE), Some(FALSE)}}

----------------------------------------------------------------------------
(* str.strip() *)

RECURSIVE lstrip(_)
lstrip(s) ==
    IF s # <<>> /\ Head(s) \in Whitespace THEN lstrip(Tail(s)) ELSE s

RECURSIVE rstrip(_)
rstrip(s) ==
    IF s # <<>> /\ s[Len(s)] \in Whitespace
    THEN rstrip(SubSeq(s, 1, Len(s) - 1))
    ELSE s

strip(s) == rstrip(lstrip(s))

----------------------------------------------------------------------------
(* prepare_node_for_pinecone *)

\* text_content with the strip() forgotten
text_content_unstripped(node) ==
    LET title == node.attributes.title
        body == IF node.attributes.body.present
                THEN node.attributes.body.value.value
                ELSE <<>>
    IN  title \o <<".", " ">> \o body

\* lines 45-51: f"{title}. {body}".strip(), body "" unless the node has one
text_content(node) ==
    LET title == node.attributes.title
        body == IF node.attributes.body.present
                THEN node.attributes.body.value.value
                ELSE <<>>
    IN  strip(title \o <<".", " ">> \o body)

\* metadata_of leaving out the optional fields the record does not have
metadata_of_omitting(node) ==
    LET a == node.attributes
        keys == {"title", "drupal_id", "type"}
                  \cup (IF a.created.present THEN {"created"} ELSE {})
                  \cup (IF a.changed.present THEN {"changed"} ELSE {})
                  \cup (IF a.status.present THEN {"status"} ELSE {})
    IN  [k \in keys |->
            CASE k = "title" -> a.title
              [] k = "created" -> a.created
              [] k = "changed" -> a.changed
              [] k = "status" -> a.status
              [] k = "drupal_id" -> node.id
              [] k = "type" -> "article"]

\* lines 54-61
metadata_of(node) ==
    [title |-> node.attributes.title,
     created |-> node.attributes.created,
     changed |-> node.attributes.changed,
     status |-> node.attributes.status,
     drupal_id |-> node.id,
     type |-> "article"]

prepare_node_for_pinecone(node) ==
    [id |-> node.id,
     text |-> text_content(node),
     metadata |-> metadata_of(node)]

----------------------------------------------------------------------------
(* The translator alone: one article record in, one prepared document out *)

NoRequest == [endpoint |-> "none"]
NoResponse == [status_code |-> 0]

PrepareInit ==
    /\ pc \in BOOLEAN
    /\ request = NoRequest
    /\ loc = "idle"
    /\ prepared_nodes = <<>>
    /\ vectors_to_upsert = <<>>
    /\ query_vector = None
    /\ calls = <<>>
    /\ response = NoResponse

\* store_node, line 125
PrepareNode(node) ==
    /\ loc = "idle"
    /\ request' = [endpoint |-> "/store-node", data |-> node]
    /\ prepared_nodes' = <<prepare_node_for_pinecone(node)>>
    /\ loc' = "prepared"
    /\ UNCHANGED <<pc, vectors_to_upsert, query_vector, calls, response>>

\* the prepared document is discarded; nothing is retained
DiscardPrepared ==
    /\ loc = "prepared"
    /\ request' = NoRequest
    /\ prepared_nodes' = <<>>
    /\ loc' = "idle"
    /\ UNCHANGED <<pc, vectors_to_upsert, query_vector, calls, response>>

PrepareNext ==
    \/ loc = "idle" /\ \E node \in AllNodes : PrepareNode(node)
    \/ DiscardPrepared

PrepareSpec == PrepareInit /\ [][PrepareNext]_vars

----------------------------------------------------------------------------
(* The service: requests, the external provider, responses *)

PINECONE_INDEX_NAME == "drupal_articles"
EMBEDDING_MODEL == "multilingual-e5-large"

\* the article records posted to the store endpoints
ReqNodes ==
    {DrupalNode(id, Hello, body, None, None, status) :
        id \in Ids,
        body \in {None, DrupalNodeBody(World)},
        status \in {None, Some(TRUE)}}

RECURSIVE SeqsUpTo(_, _)
SeqsUpTo(S, n) ==
    IF n = 0 THEN {<<>>}
    ELSE LET shorter == SeqsUpTo(S, n - 1)
         IN  shorter \cup {Append(s, x) : s \in shorter, x \in S}

Batches == SeqsUpTo(ReqNodes, MaxBatch)

Queries == Strings
TopKs == {5, 10}

\* what an external call does: raise an exception or return a value
Messages == {"timeout", "quota exceeded"}
Raise(msg) == [raised |-> TRUE, msg |-> msg]
Return(v) == [raised |-> FALSE, value |-> v]
Raises == {Raise(m) : m \in Messages}

\* pc.Index(name): a handle, or an exception
IndexOutcomes == Raises \cup {Return("index")}

\* pc.inference.embed(...): embedding_response.data, of any length
Vectors == {<<1>>, <<2>>}
EmbedOutcomes(n) == Raises \cup {Return(d) : d \in SeqsUpTo(Vectors, n + 1)}

\* index.upsert(...): upsert_response.upserted_count, whatever the store reports
UpsertOutcomes(n) == Raises \cup {Return(c) : c \in 0..(n + 1)}

\* index.query(...): search_response.matches; a match may lack the metadata
\* attribute, hold None, an empty mapping or a non-empty one
MatchMetadata ==
    {[kind |-> "noattr"], [kind |-> "None"],
     [kind |-> "dict", items |-> {}],
     [kind |-> "dict", items |-> {<<"title", "Hello">>}]}
Scores == {1, 2}
Matches == [id : Ids, score : Scores, metadata : MatchMetadata]
QueryOutcomes == Raises \cup {Return(m) : m \in SeqsUpTo(Matches, MaxMatches)}

\* raise HTTPException(status_code, detail), as FastAPI answers it
HTTPException(status_code, detail) ==
    [class |-> "HTTPException", status_code |-> status_code, detail |-> detail]

\* any other exception, with its str()
Exception(msg) == [class |-> "Exception", msg |-> msg]

\* JSONResponse(status_code, content) or a returned dict
JSONResponse(status_code, content) ==
    [class |-> "JSONResponse", status_code |-> status_code, content |-> content]

NOT_CONFIGURED == HTTPException(500, <<"Pinecone API key not configured">>)

----------------------------------------------------------------------------
(* store_in_pinecone and the two store endpoints *)

\* line 78
texts_of(articles_data) ==
    [i \in DOMAIN articles_data |-> articles_data[i].text]

\* build_vectors pairing the vectors with the documents back to front
build_vectors_reversed(articles_data, data) ==
    IF Len(data) < Len(articles_data)
    THEN Raise("list index out of range")
    ELSE Return([i \in DOMAIN articles_data |->
                    [id |-> articles_data[i].id,
                     values |-> data[Len(articles_data) + 1 - i],
                     metadata |-> articles_data[i].metadata]])

\* lines 89-95; data[i] raises IndexError when the provider returned too few
build_vectors(articles_data, data) ==
    IF Len(data) < Len(articles_data)
    THEN Raise("list index out of range")
    ELSE Return([i \in DOMAIN articles_data |->
                    [id |-> articles_data[i].id,
                     values |-> data[i],
                     metadata |-> articles_data[i].metadata]])

\* store_summary reporting the number of documents as the upserted count
store_summary_reconciled(upserted_count, articles_data) ==
    [success |-> TRUE,
     upserted_count |-> Len(articles_data),
     articles_processed |-> Len(articles_data),
     embedding_model |-> EMBEDDING_MODEL]

\* lines 100-105
store_summary(upserted_count, articles_data) ==
    [success |-> TRUE,
     upserted_count |-> upserted_count,
     articles_processed |-> Len(articles_data),
     embedding_model |-> EMBEDDING_MODEL]

\* lines 107-108: except Exception as e
store_except(msg) ==
    HTTPException(500, <<"Error storing in Pinecone: ", msg>>)

\* endpoint_except without the "except HTTPException: raise" clause
endpoint_except_rewrap(e) ==
    IF e.class = "HTTPException"
    THEN HTTPException(500, <<"Unexpected error: ">> \o e.detail)
    ELSE HTTPException(500, <<"Unexpected error: ", e.msg>>)

\* lines 139-142 and 169-172: except HTTPException: raise / except Exception
endpoint_except(e) ==
    IF e.class = "HTTPException"
    THEN e
    ELSE HTTPException(500, <<"Unexpected error: ", e.msg>>)

\* lines 130-137 and 160-167
store_response(req, result) ==
    IF req.endpoint = "/store-node"
    THEN JSONResponse(200, [message |-> "Node successfully stored in Pinecone",
                            node_id |-> req.data.id,
                            result |-> result])
    ELSE JSONResponse(200, [message |-> "Nodes successfully stored in Pinecone",
                            nodes_count |-> Len(req.nodes),
                            result |-> result])

\* the guard on the client left out
client_never_missing == FALSE

\* lines 71-72: the guard that opens store_in_pinecone
client_missing == ~pc

\* the call of store_in_pinecone(articles_data) up to its first external call
EnterStore(articles_data) ==
    /\ prepared_nodes' = articles_data
    /\ IF client_missing
       THEN /\ response' = endpoint_except(NOT_CONFIGURED)
            /\ loc' = "done"
       ELSE /\ response' = response
            /\ loc' = "store_index"
    /\ UNCHANGED <<pc, vectors_to_upsert, query_vector, calls>>

\* POST /store-node
StoreNode(node) ==
    /\ loc = "idle"
    /\ request' = [endpoint |-> "/store-node", data |-> node]
    /\ EnterStore(<<prepare_node_for_pinecone(node)>>)

\* the empty-batch test left out
no_nodes_never(nodes) == FALSE

\* lines 148-152
no_nodes(nodes) == nodes = <<>>

\* POST /store-nodes
StoreMultipleNodes(nodes) ==
    /\ loc = "idle"
    /\ request' = [endpoint |-> "/store-nodes", nodes |-> nodes]
    /\ IF no_nodes(nodes)
       THEN /\ response' = JSONResponse(200, [message |-> "No nodes provided",
                                              count |-> 0])
            /\ loc' = "done"
            /\ UNCHANGED <<pc, prepared_nodes, vectors_to_upsert,
                           query_vector, calls>>
       ELSE EnterStore([i \in DOMAIN nodes |->
                           prepare_node_for_pinecone(nodes[i])])

\* the handler ends by raising e out of store_in_pinecone
StoreFails(msg) ==
    /\ response' = endpoint_except(store_except(msg))
    /\ loc' = "done"

\* line 75
StoreIndex ==
    /\ loc = "store_index"
    /\ \E outcome \in IndexOutcomes :
         /\ calls' = Append(calls, [op |-> "Index",
                                    name |-> PINECONE_INDEX_NAME,
                                    outcome |-> outcome])
         /\ IF outcome.raised
            THEN StoreFails(outcome.msg)
            ELSE /\ loc' = "store_embed"
                 /\ response' = response
    /\ UNCHANGED <<pc, request, prepared_nodes, vectors_to_upsert, query_vector>>

\* where the handler goes after the embed call (lines 82-95)
after_embed(outcome, articles_data) ==
    IF outcome.raised THEN outcome ELSE build_vectors(articles_data, outcome.value)

\* lines 78-95
StoreEmbed ==
    /\ loc = "store_embed"
    /\ \E outcome \in EmbedOutcomes(Len(prepared_nodes)) :
         /\ calls' = Append(calls, [op |-> "embed",
                                    model |-> EMBEDDING_MODEL,
                                    inputs |-> texts_of(prepared_nodes),
                                    input_type |-> "passage",
                                    outcome |-> outcome])
         /\ LET built == after_embed(outcome, prepared_nodes)
            IN  IF built.raised
                THEN /\ StoreFails(built.msg)
                     /\ UNCHANGED vectors_to_upsert
                ELSE /\ vectors_to_upsert' = built.value
                     /\ loc' = "store_upsert"
                     /\ response' = response
    /\ UNCHANGED <<pc, request, prepared_nodes, query_vector>>

\* lines 98-108 and the endpoint's return
StoreUpsert ==
    /\ loc = "store_upsert"
    /\ \E outcome \in UpsertOutcomes(Len(prepared_nodes)) :
         /\ calls' = Append(calls, [op |-> "upsert",
                                    vectors |-> vectors_to_upsert,
                                    outcome |-> outcome])
         /\ IF outcome.raised
            THEN StoreFails(outcome.msg)
            ELSE /\ response' = store_response(request,
                                    store_summary(outcome.value, prepared_nodes))
                 /\ loc' = "done"
    /\ UNCHANGED <<pc, request, prepared_nodes, vectors_to_upsert, query_vector>>

----------------------------------------------------------------------------
(* search_articles *)

\* the emptiness test without strip()
query_is_empty_unstripped(query) == query = <<>>

\* line 185: not query.strip()
query_is_empty(query) == strip(query) = <<>>

\* lines 224-225: except Exception as e
search_except(msg) ==
    HTTPException(500, <<"Error searching Pinecone: ", msg>>)

\* the metadata test without the caller's include_metadata
keeps_metadata_unasked(match, include_metadata) ==
    /\ match.metadata.kind = "dict"
    /\ match.metadata.items # {}

\* line 214: include_metadata and hasattr(match, 'metadata') and match.metadata
keeps_metadata(match, include_metadata) ==
    /\ include_metadata
    /\ match.metadata.kind # "noattr"
    /\ match.metadata.kind = "dict"
    /\ match.metadata.items # {}

\* lines 210-215
result_of(match, include_metadata) ==
    IF keeps_metadata(match, include_metadata)
    THEN [id |-> match.id, score |-> match.score,
          metadata |-> match.metadata.items]
    ELSE [id |-> match.id, score |-> match.score]

\* results_of skipping the matches that carry no metadata
results_of_filtered(matches, include_metadata) ==
    LET kept == SelectSeq(matches,
                    LAMBDA m : m.metadata.kind = "dict" /\ m.metadata.items # {})
    IN  [i \in DOMAIN kept |-> result_of(kept[i], include_metadata)]

\* lines 208-216
results_of(matches, include_metadata) ==
    [i \in DOMAIN matches |-> result_of(matches[i], include_metadata)]

\* lines 218-222
search_response(query, results) ==
    JSONResponse(200, [query |-> query,
                       results |-> results,
                       total_results |-> Len(results)])

\* lines 182-186: the two guards, in the order the handler tests them
search_guard(query) ==
    IF client_missing
    THEN Raise(NOT_CONFIGURED)
    ELSE IF query_is_empty(query)
         THEN Raise(HTTPException(400, <<"Search query cannot be empty">>))
         ELSE Return("ok")

\* GET /search
SearchArticles(query, top_k, include_metadata) ==
    /\ loc = "idle"
    /\ request' = [endpoint |-> "/search", query |-> query, top_k |-> top_k,
                   include_metadata |-> include_metadata]
    /\ LET guard == search_guard(query)
       IN  IF guard.raised
           THEN /\ response' = guard.msg
                /\ loc' = "done"
           ELSE /\ response' = response
                /\ loc' = "search_index"
    /\ UNCHANGED <<pc, prepared_nodes, vectors_to_upsert, query_vector, calls>>

\* the handler ends in its except clause
SearchFails(msg) ==
    /\ response' = search_except(msg)
    /\ loc' = "done"

\* line 189
SearchIndex ==
    /\ loc = "search_index"
    /\ \E outcome \in IndexOutcomes :
         /\ calls' = Append(calls, [op |-> "Index",
                                    name |-> PINECONE_INDEX_NAME,
                                    outcome |-> outcome])
         /\ IF outcome.raised
            THEN SearchFails(outcome.msg)
            ELSE /\ loc' = "search_embed"
                 /\ response' = response
    /\ UNCHANGED <<pc, request, prepared_nodes, vectors_to_upsert, query_vector>>

\* lines 192-198; data[0] raises IndexError on an empty data list
SearchEmbed ==
    /\ loc = "search_embed"
    /\ \E outcome \in EmbedOutcomes(1) :
         /\ calls' = Append(calls, [op |-> "embed",
                                    model |-> EMBEDDING_MODEL,
                                    inputs |-> <<request.query>>,
                                    input_type |-> "query",
                                    outcome |-> outcome])
         /\ IF outcome.raised
            THEN /\ SearchFails(outcome.msg)
                 /\ UNCHANGED query_vector
            ELSE IF outcome.value = <<>>
                 THEN /\ SearchFails("list index out of range")
                      /\ UNCHANGED query_vector
                 ELSE /\ query_vector' = Some(outcome.value[1])
                      /\ loc' = "search_query"
                      /\ response' = response
    /\ UNCHANGED <<pc, request, prepared_nodes, vectors_to_upsert>>

\* lines 201-225
SearchQuery ==
    /\ loc = "search_query"
    /\ \E outcome \in QueryOutcomes :
         /\ calls' = Append(calls, [op |-> "query",
                                    vector |-> query_vector.value,
                                    top_k |-> request.top_k,
                                    include_metadata |-> request.include_metadata,
                                    outcome |-> outcome])
         /\ IF outcome.raised
            THEN SearchFails(outcome.msg)
            ELSE /\ response' = search_response(request.query,
                                    results_of(outcome.value,
                                               request.include_metadata))
                 /\ loc' = "done"
    /\ UNCHANGED <<pc, request, prepared_nodes, vectors_to_upsert, query_vector>>

----------------------------------------------------------------------------
(* The endpoints without external calls, and the end of a request *)

\* GET /
Root ==
    /\ loc = "idle"
    /\ request' = [endpoint |-> "/"]
    /\ response' = JSONResponse(200,
                       [message |-> "Drupal to Pinecone API is running"])
    /\ loc' = "done"
    /\ UNCHANGED <<pc, prepared_nodes, vectors_to_upsert, query_vector, calls>>

\* GET /health
Health ==
    /\ loc = "idle"
    /\ request' = [endpoint |-> "/health"]
    /\ response' = JSONResponse(200, [status |-> "healthy",
                                      service |-> "drupal-pinecone-api"])
    /\ loc' = "done"
    /\ UNCHANGED <<pc, prepared_nodes, vectors_to_upsert, query_vector, calls>>

\* the response is sent; the handler's locals are gone and nothing is retained
Respond ==
    /\ loc = "done"
    /\ request' = NoRequest
    /\ loc' = "idle"
    /\ prepared_nodes' = <<>>
    /\ vectors_to_upsert' = <<>>
    /\ query_vector' = None
    /\ calls' = <<>>
    /\ response' = NoResponse
    /\ UNCHANGED pc

\* lines 14-20: the client exists iff the credential is set
Init ==
    /\ pc \in BOOLEAN
    /\ request = NoRequest
    /\ loc = "idle"
    /\ prepared_nodes = <<>>
    /\ vectors_to_upsert = <<>>
    /\ query_vector = None
    /\ calls = <<>>
    /\ response = NoResponse

Next ==
    \/ Root
    \/ Health
    \/ loc = "idle" /\ \E node \in ReqNodes : StoreNode(node)
    \/ loc = "idle" /\ \E nodes \in Batches : StoreMultipleNodes(nodes)
    \/ StoreIndex
    \/ StoreEmbed
    \/ StoreUpsert
    \/ loc = "idle" /\ \E query \in Queries, top_k \in TopKs,
                          include_metadata \in BOOLEAN :
                         SearchArticles(query, top_k, include_metadata)
    \/ SearchIndex
    \/ SearchEmbed
    \/ SearchQuery
    \/ Respond

Spec == Init /\ [][Next]_vars

----------------------------------------------------------------------------
(* Vocabulary of the properties *)

StoreEndpoints == {"/store-node", "/store-nodes"}

\* the article records of the store request being handled, in input order
RequestNodes ==
    IF request.endpoint = "/store-node" THEN <<request.data>> ELSE request.nodes

\* a string that is empty or holds whitespace only
EmptyOrWhitespace(s) == \A i \in DOMAIN s : s[i] \in Whitespace

\* t is s without its leading and trailing whitespace
IsTrimOf(t, s) ==
    \E i \in 1..(Len(s) + 1), j \in 0..Len(s) :
        /\ t = SubSeq(s, i, j)
        /\ \A k \in 1..(i - 1) : s[k] \in Whitespace
        /\ \A k \in (j + 1)..Len(s) : s[k] \in Whitespace
        /\ t # <<>> => (t[1] \notin Whitespace /\ t[Len(t)] \notin Whitespace)

CallsOf(op) == {i \in DOMAIN calls : calls[i].op = op}

EmptyBatchResponse ==
    JSONResponse(200, [message |-> "No nodes provided", count |-> 0])

----------------------------------------------------------------------------
(* C1 *)

\* C1 (as stated): without the client, every store call (an empty batch
\* included) and every search call ends in the 500 configuration error, and
\* no external call is made.
C1_AsStated ==
    (~pc /\ loc = "done"
         /\ request.endpoint \in StoreEndpoints \cup {"/search"})
        => (response = NOT_CONFIGURED /\ calls = <<>>)

\* C1 (amended): without the client, POST /store-node, POST /store-nodes with
\* a non-empty batch and GET /search with any query end in the 500
\* configuration error; POST /store-nodes with an empty batch ends in the 200
\* response with count 0; in every case no external call is made and the
\* handler never reaches one.
C1_Unconfigured ==
    ~pc =>
        /\ calls = <<>>
        /\ loc \in {"idle", "done"}
        /\ (loc = "done" /\ request.endpoint \in StoreEndpoints \cup {"/search"})
            => IF request.endpoint = "/store-nodes" /\ request.nodes = <<>>
               THEN response = EmptyBatchResponse
               ELSE /\ response.status_code = 500
                    /\ response = HTTPException(500,
                                      <<"Pinecone API key not configured">>)

C1_Witness ==
    /\ ~pc
    /\ loc = "done"
    /\ request.endpoint = "/store-nodes"
    /\ Len(request.nodes) = 2
    /\ response.status_code = 500
    /\ calls = <<>>

----------------------------------------------------------------------------
(* C2 *)

\* C2 (as stated): an empty or whitespace-only search query is rejected with
\* a 400 before any external call, whatever top_k and include_metadata are.
C2_AsStated ==
    (loc = "done" /\ request.endpoint = "/search"
                  /\ EmptyOrWhitespace(request.query))
        => (response.status_code = 400 /\ calls = <<>>)

\* C2 (amended): with the client configured, an empty or whitespace-only
\* search query is rejected with a 400 before any external call, whatever
\* top_k and include_metadata are; without the client the same request gets
\* the 500 configuration error, also before any external call.
C2_EmptyQuery ==
    (request.endpoint = "/search" /\ EmptyOrWhitespace(request.query))
        => /\ loc = "done"
           /\ calls = <<>>
           /\ response.class = "HTTPException"
           /\ response.status_code = IF pc THEN 400 ELSE 500

C2_Witness ==
    /\ pc
    /\ loc = "done"
    /\ request.endpoint = "/search"
    /\ request.query = <<" ", "\t">>
    /\ request.top_k = 5
    /\ ~request.include_metadata
    /\ response.status_code = 400
    /\ calls = <<>>

----------------------------------------------------------------------------
(* C3 *)

\* C3: an empty batch posted to /store-nodes gets the 200 response with
\* count 0 and no external call; the store operation only ever runs on a
\* non-empty sequence of prepared documents (its embed call has a non-empty
\* input list, its upsert call a non-empty batch).
C3_EmptyBatch ==
    /\ (request.endpoint = "/store-nodes" /\ request.nodes = <<>>)
        => (loc = "done" /\ response = EmptyBatchResponse /\ calls = <<>>)
    /\ loc \in {"store_index", "store_embed", "store_upsert"}
        => prepared_nodes # <<>>
    /\ request.endpoint \in StoreEndpoints
        => /\ \A i \in CallsOf("embed") : calls[i].inputs # <<>>
           /\ \A i \in CallsOf("upsert") : calls[i].vectors # <<>>
           /\ calls # <<>> => prepared_nodes # <<>>

C3_Witness ==
    /\ pc
    /\ loc = "done"
    /\ request.endpoint = "/store-nodes"
    /\ request.nodes = <<>>
    /\ response.status_code = 200
    /\ response.content.count = 0
    /\ calls = <<>>

----------------------------------------------------------------------------
(* C4 *)

\* C4: the batch handed to upsert has one entry per article record of the
\* request, in input order; entry i carries record i's id unchanged, record
\* i's metadata and the i-th vector the embed call returned, and the embed
\* call's i-th input was record i's prepared text.
C4_UpsertBatch ==
    \A u \in CallsOf("upsert") :
        LET nodes == RequestNodes
            vectors == calls[u].vectors
        IN  /\ Len(vectors) = Len(nodes)
            /\ Cardinality(CallsOf("embed")) = 1
            /\ \A e \in CallsOf("embed") :
                 /\ e < u
                 /\ Len(calls[e].inputs) = Len(nodes)
                 /\ \A i \in DOMAIN nodes :
                      /\ vectors[i].id = nodes[i].id
                      /\ vectors[i].metadata = prepared_nodes[i].metadata
                      /\ vectors[i].metadata.drupal_id = nodes[i].id
                      /\ vectors[i].metadata.title = nodes[i].attributes.title
                      /\ vectors[i].values = calls[e].outcome.value[i]
                      /\ calls[e].inputs[i] = prepared_nodes[i].text
                      /\ prepared_nodes[i].id = nodes[i].id

C4_Witness ==
    /\ loc = "done"
    /\ request.endpoint = "/store-nodes"
    /\ Len(request.nodes) = 2
    /\ request.nodes[1].id # request.nodes[2].id
    /\ \E u \in CallsOf("upsert") :
         /\ Len(calls[u].vectors) = 2
         /\ calls[u].vectors[1].values # calls[u].vectors[2].values
         /\ calls[u].vectors[1].id = request.nodes[1].id
         /\ calls[u].vectors[2].id = request.nodes[2].id

----------------------------------------------------------------------------
(* C5 *)

\* the matches the index returned for the search being handled
ReturnedMatches(q) == calls[q].outcome.value

SearchSucceeded ==
    /\ loc = "done"
    /\ request.endpoint = "/search"
    /\ response.status_code = 200

\* C5: a result entry of a search response has a metadata key only if the
\* caller asked for metadata and the store returned a non-empty metadata
\* payload for that match; with include_metadata false no entry has one.
C5_MetadataKey ==
    SearchSucceeded =>
        \A q \in CallsOf("query") :
            \A i \in DOMAIN response.content.results :
                "metadata" \in DOMAIN response.content.results[i]
                    => /\ request.include_metadata
                       /\ ReturnedMatches(q)[i].metadata.kind = "dict"
                       /\ ReturnedMatches(q)[i].metadata.items # {}
                       /\ response.content.results[i].metadata
                              = ReturnedMatches(q)[i].metadata.items

C5_Witness ==
    /\ SearchSucceeded
    /\ request.top_k = 5
    /\ ~request.include_metadata
    /\ \E q \in CallsOf("query") :
         /\ Len(ReturnedMatches(q)) = 2
         /\ \A i \in 1..2 : /\ ReturnedMatches(q)[i].metadata.kind = "dict"
                            /\ ReturnedMatches(q)[i].metadata.items # {}
    /\ \A i \in DOMAIN response.content.results :
         "metadata" \notin DOMAIN response.content.results[i]

----------------------------------------------------------------------------
(* C6 *)

\* C6: whenever the upsert call returns, the store request succeeds with a
\* summary whose upserted_count is the count the store reported and whose
\* articles_processed is the number of documents of the request, whether or
\* not the two agree.
C6_Summary ==
    (loc = "done" /\ request.endpoint \in StoreEndpoints)
        => \A u \in CallsOf("upsert") :
             ~calls[u].outcome.raised
                => /\ response.status_code = 200
                   /\ response.content.result.success
                   /\ response.content.result.upserted_count
                          = calls[u].outcome.value
                   /\ response.content.result.articles_processed
                          = Len(RequestNodes)
                   /\ response.content.result.embedding_model
                          = "multilingual-e5-large"

C6_Witness ==
    /\ loc = "done"
    /\ request.endpoint = "/store-nodes"
    /\ response.status_code = 200
    /\ Len(request.nodes) = 2
    /\ response.content.result.success
    /\ response.content.result.upserted_count = 1
    /\ response.content.result.articles_processed = 2

----------------------------------------------------------------------------
(* C7 *)

\* C7: the prepared text of an article record is title + ". " + body.value
\* without its leading and trailing whitespace when the record has a body
\* (an empty value included), and title + ". " trimmed likewise when it has
\* none; id "42", title "Hello", body "World" gives "Hello. World".
C7_PreparedText ==
    loc = "prepared" =>
        LET attributes == request.data.attributes
            joined == IF attributes.body.present
                      THEN attributes.title \o <<".", " ">>
                               \o attributes.body.value.value
                      ELSE attributes.title \o <<".", " ">>
        IN  /\ Len(prepared_nodes) = 1
            /\ IsTrimOf(prepared_nodes[1].text, joined)
            /\ request.data = ExampleNode
                 => prepared_nodes[1].text
                        = <<"H", "e", "l", "l", "o", ".", " ",
                            "W", "o", "r", "l", "d">>

C7_Witness ==
    /\ loc = "prepared"
    /\ request.data.attributes.title = <<" ", "a">>
    /\ request.data.attributes.body.present
    /\ request.data.attributes.body.value.value = <<>>
    /\ prepared_nodes[1].text = <<"a", ".">>

----------------------------------------------------------------------------
(* C8 *)

MetadataKeys == {"title", "created", "changed", "status", "drupal_id", "type"}

\* C8: the prepared metadata has exactly the six keys title, created,
\* changed, status, drupal_id and type; drupal_id is the record's id, type
\* is "article", and an absent created, changed or status is present as None.
C8_Metadata ==
    loc = "prepared" =>
        LET node == request.data
            metadata == prepared_nodes[1].metadata
        IN  /\ DOMAIN metadata = MetadataKeys
            /\ metadata.drupal_id = node.id
            /\ metadata.type = "article"
            /\ metadata.title = node.attributes.title
            /\ metadata.created = node.attributes.created
            /\ metadata.changed = node.attributes.changed
            /\ metadata.status = node.attributes.status

C8_Witness ==
    /\ loc = "prepared"
    /\ ~request.data.attributes.created.present
    /\ ~request.data.attributes.changed.present
    /\ ~request.data.attributes.status.present
    /\ DOMAIN prepared_nodes[1].metadata = MetadataKeys
    /\ prepared_nodes[1].metadata.created = None
    /\ prepared_nodes[1].metadata.changed = None
    /\ prepared_nodes[1].metadata.status = None

----------------------------------------------------------------------------
(* C9 *)

\* C9: in a store request with the client configured, an embed or upsert call
\* that raises is the last external call of the request, and the request ends
\* with the 500 error "Error storing in Pinecone: <message>" as raised by the
\* store operation (not rewrapped, no success summary); a request makes at
\* most one embed call and at most one upsert call, and no upsert call after
\* an embed call that raised.
C9_StoreFailure ==
    request.endpoint \in StoreEndpoints =>
        /\ Cardinality(CallsOf("embed")) <= 1
        /\ Cardinality(CallsOf("upsert")) <= 1
        /\ \A i \in CallsOf("embed") \cup CallsOf("upsert") :
             calls[i].outcome.raised
                => /\ i = Len(calls)
                   /\ loc = "done"
                   /\ response.class = "HTTPException"
                   /\ response.status_code = 500
                   /\ response.detail = <<"Error storing in Pinecone: ",
                                          calls[i].outcome.msg>>
        /\ \A e \in CallsOf("embed") :
             calls[e].outcome.raised => CallsOf("upsert") = {}

C9_Witness ==
    /\ pc
    /\ loc = "done"
    /\ request.endpoint = "/store-node"
    /\ Len(calls) = 3
    /\ calls[3].op = "upsert"
    /\ calls[3].outcome = Raise("timeout")
    /\ response.status_code = 500
    /\ response.detail = <<"Error storing in Pinecone: ", "timeout">>

----------------------------------------------------------------------------
(* C10 *)

\* C10: whenever the index query returns, the search succeeds with the query
\* string exactly as received, one result per returned match in the store's
\* order, each with that match's id and score, and total_results equal to
\* the number of results.
C10_SearchResponse ==
    (loc = "done" /\ request.endpoint = "/search")
        => \A q \in CallsOf("query") :
             ~calls[q].outcome.raised
                => LET content == response.content
                       matches == ReturnedMatches(q)
                   IN  /\ response.status_code = 200
                       /\ content.query = request.query
                       /\ Len(content.results) = Len(matches)
                       /\ \A i \in DOMAIN matches :
                            /\ content.results[i].id = matches[i].id
                            /\ content.results[i].score = matches[i].score
                       /\ content.total_results = Len(content.results)

C10_Witness ==
    /\ SearchSucceeded
    /\ request.query = <<" ", "a">>
    /\ response.content.query = <<" ", "a">>
    /\ response.content.total_results = 2
    /\ response.content.results[1].score < response.content.results[2].score
    /\ response.content.results[1].id # response.content.results[2].id
    /\ "metadata" \notin DOMAIN response.content.results[1]

=============================================================================
